---- MODULE Spec2Model ----
(***************************************************************************)
(* Model of the gzdec GStreamer element (src/gstplugin.c, gstgzdec.h):     *)
(* the chunked decode loop decode_message, the process-wide z_stream       *)
(* session it drives, and the pipeline-facing callers                      *)
(* gst_gzdec_process_data and gst_gzdec_chain.                             *)
(*                                                                         *)
(* An input byte is modelled by what the inflate engine does when it       *)
(* consumes it: <<"emit", k>> makes k decoded bytes pending (k = 0 for     *)
(* header, trailer and bytes whose bits only complete a later symbol),     *)
(* <<"end", 0>> is the last byte of the gzip trailer, <<"bad", 0>> is a    *)
(* byte the engine rejects as corrupt, <<"dict", 0>> one that makes it ask *)
(* for a preset dictionary.  The i-th decoded byte of a stream has the     *)
(* value i, so that order, loss and duplication of output are visible.     *)
(***************************************************************************)
EXTENDS Integers, Sequences, FiniteSets, TLC

(* ---- bounds ---------------------------------------------------------- *)

\* gstgzdec.h:55 defines CHUNK as 1024 * 256; the model scales it down.
CHUNK == 2

\* longest input buffer handed to one gst_gzdec_chain call
MaxLen == 3

\* number of gst_gzdec_chain calls in one run
MaxCalls == 2

\* number of gzdec elements created in one run
MaxElements == 2

\* longest input buffer in the runs with two streaming threads and in the
\* runs with direct callers of decode_message
ConcLen == 2

\* gint and uInt are 32 bits wide; the model scales the width down
IntBits == 4

\* streaming threads; Serial is the set that runs in the sequential program
Threads == {1, 2}

Serial == {1}

(* ---- input bytes and blobs ------------------------------------------- *)

Emit(k) == <<"emit", k>>

EndTok == <<"end", 0>>

BadTok == <<"bad", 0>>

DictTok == <<"dict", 0>>

\* a zero byte left by memset in an unused part of inbuffer
PadTok == <<"pad", 0>>

\* decoded bytes one input byte stands for: none (framing), exactly one
\* outbuffer, one outbuffer and a byte
EmitCounts == {0, CHUNK, CHUNK + 1}

Tokens == {Emit(k) : k \in EmitCounts} \cup {EndTok, BadTok, DictTok}

RECURSIVE SeqsUpTo(_, _)
SeqsUpTo(S, n) ==
  IF n = 0 THEN {<< >>}
  ELSE LET shorter == SeqsUpTo(S, n - 1)
       IN  shorter \cup {Append(s, x) : s \in {q \in shorter : Len(q) = n - 1}, x \in S}

Blobs == SeqsUpTo(Tokens, MaxLen)

IsEmit(tok) == tok[1] = "emit"

\* a whole gzip member: payload bytes, then the end of the trailer
ValidComplete(b) ==
  /\ Len(b) >= 1
  /\ b[Len(b)] = EndTok
  /\ \A i \in 1..(Len(b) - 1) : IsEmit(b[i])

\* a valid gzip member cut before its logical end (possibly at offset 0)
Truncated(b) == \A i \in 1..Len(b) : IsEmit(b[i])

RECURSIVE EmitSum(_)
EmitSum(b) ==
  IF b = << >> THEN 0
  ELSE (IF IsEmit(Head(b)) THEN Head(b)[2] ELSE 0) + EmitSum(Tail(b))

\* the bytes number from+1 .. from+n of the decompressed stream
Bytes(from, n) == [i \in 1..n |-> from + i]

(* ---- the z_stream session and the inflate engine ---------------------- *)

NULL == [thr |-> 0, idx |-> 0]

\* the global z_stream before init_decoder: zero-initialised static storage
ZeroStream ==
  [avail_in |-> 0, next_in |-> NULL, avail_out |-> 0, next_out |-> NULL,
   mode |-> "none", pend |-> 0, total |-> 0]

FatalCodes == {"Z_NEED_DICT", "Z_DATA_ERROR", "Z_MEM_ERROR", "Z_STREAM_ERROR"}

EngineCodes == FatalCodes \cup {"Z_OK", "Z_STREAM_END", "Z_BUF_ERROR"}

\* the byte the engine reads at next_in
ReadIn(inb, p) ==
  IF p.thr \in Threads /\ p.idx \in 1..CHUNK THEN inb[p.thr][p.idx] ELSE PadTok

\* the engine stores one decoded byte at next_out
WriteOut(outb, p, v) ==
  IF p.thr \in Threads /\ p.idx \in 1..CHUNK
  THEN [outb EXCEPT ![p.thr][p.idx] = v]
  ELSE outb

Advance(p) == [p EXCEPT !.idx = @ + 1]

\* inflate's main loop in mode "run" or "done": write pending decoded bytes
\* while output space is left, consume input bytes while any are left.  An
\* eager engine consumes bytes that need no output space even when
\* avail_out = 0; a lazy one returns as soon as the output is full.
RECURSIVE InflateLoop(_, _, _, _)
InflateLoop(s, inb, outb, eager) ==
  IF s.pend > 0 THEN
    IF s.avail_out = 0 THEN [s |-> s, outb |-> outb, ret |-> "Z_OK"]
    ELSE InflateLoop([s EXCEPT !.pend = @ - 1, !.total = @ + 1,
                               !.avail_out = @ - 1, !.next_out = Advance(@)],
                     inb, WriteOut(outb, s.next_out, s.total + 1), eager)
  ELSE IF s.mode = "done" THEN [s |-> s, outb |-> outb, ret |-> "Z_STREAM_END"]
  ELSE IF s.avail_in = 0 THEN [s |-> s, outb |-> outb, ret |-> "Z_OK"]
  ELSE IF ~eager /\ s.avail_out = 0 THEN [s |-> s, outb |-> outb, ret |-> "Z_OK"]
  ELSE LET tok == ReadIn(inb, s.next_in)
           t1  == [s EXCEPT !.avail_in = @ - 1, !.next_in = Advance(@)]
       IN  CASE tok[1] = "emit" -> InflateLoop([t1 EXCEPT !.pend = tok[2]], inb, outb, eager)
             [] tok[1] = "end"  -> InflateLoop([t1 EXCEPT !.mode = "done"], inb, outb, eager)
             [] tok[1] = "dict" -> [s |-> [t1 EXCEPT !.mode = "dict"], outb |-> outb,
                                    ret |-> "Z_NEED_DICT"]
             [] OTHER           -> [s |-> [t1 EXCEPT !.mode = "bad"], outb |-> outb,
                                    ret |-> "Z_DATA_ERROR"]

\* inflate (&stream, Z_NO_FLUSH).  memfail: the engine's window allocation
\* fails in this call.
inflate(s, inb, outb, eager, memfail) ==
  IF \/ s.mode = "none"
     \/ s.next_out = NULL
     \/ (s.next_in = NULL /\ s.avail_in # 0)
    THEN [s |-> s, outb |-> outb, ret |-> "Z_STREAM_ERROR"]
  ELSE IF s.mode = "bad"  THEN [s |-> s, outb |-> outb, ret |-> "Z_DATA_ERROR"]
  ELSE IF s.mode = "dict" THEN [s |-> s, outb |-> outb, ret |-> "Z_NEED_DICT"]
  ELSE IF s.mode = "mem"  THEN [s |-> s, outb |-> outb, ret |-> "Z_MEM_ERROR"]
  ELSE IF memfail /\ s.mode = "run"
    THEN [s |-> [s EXCEPT !.mode = "mem"], outb |-> outb, ret |-> "Z_MEM_ERROR"]
  ELSE LET r == InflateLoop(s, inb, outb, eager)
       IN  IF r.ret = "Z_OK" /\ r.s.avail_in = s.avail_in /\ r.s.avail_out = s.avail_out
           THEN [r EXCEPT !.ret = "Z_BUF_ERROR"]
           ELSE r

\* inflateInit2 (&stream, 16 + MAX_WBITS): a fresh gzip-framed session
inflateInit2(s) == [s EXCEPT !.mode = "run", !.pend = 0, !.total = 0]

\* inflateEnd (&stream): the engine state is released
inflateEnd(s) == [s EXCEPT !.mode = "none", !.pend = 0, !.total = 0]

(* ---- state ------------------------------------------------------------- *)

VARIABLES
  stream,      \* the global z_stream (gstplugin.c:233)
  elements,    \* number of gzdec elements created so far
  srcpad,      \* the buffers pushed on the source pad, in order
  calls,       \* number of gst_gzdec_chain calls made so far
  fed,         \* history: what the chain calls delivered since the last init_decoder
  oom,         \* history: the engine failed to allocate since the last init_decoder
  ended,       \* history: inflateEnd has been called since the last init_decoder
  last,        \* history: what the latest decode_message call since init_decoder returned
  pc,          \* per thread: position in chain / process_data / decode_message
  srcmsg,      \* per thread: the mapped input buffer
  srclen,      \* per thread: decode_message's srclen argument
  outmsg,      \* per thread: *outmsg, i.e. process_data's decodedmsg
  outlen,      \* per thread: *outlen, i.e. process_data's decodedmsglen
  ret,         \* per thread: decode_message's local ret
  inbuffer,    \* per thread: decode_message's inbuffer[CHUNK]
  outbuffer,   \* per thread: decode_message's outbuffer[CHUNK]
  processed,   \* per thread: decode_message's local processed
  nodes,       \* per thread: the ll_buffer chain starting at head
  outdata,     \* per thread: index in nodes of the node outdata points to (0 = NULL)
  srcidx,      \* per thread: offset of srcidx from srcmsg
  remainder,   \* per thread: decode_message's local remainder
  outmsgidx,   \* per thread: decode_message's local outmsgidx
  result,      \* per thread: the value decode_message returned
  outbuf,      \* per thread: the GstBuffer process_data returns
  flow,        \* per thread: the GstFlowReturn of the last chain call
  ord,         \* per thread, history: which decode since init_decoder this call is (0 = none)
  liveNodes,   \* per thread: ll_buffer nodes allocated by the current call and not freed
  liveData     \* per thread: fragment data buffers allocated by the current call and not freed

sessVars == <<stream, elements, srcpad, calls, fed, oom, ended, last>>

bufVars == <<inbuffer, outbuffer>>

callVars == <<srcmsg, srclen, outmsg, outlen, result, outbuf, flow, ord>>

loopVars == <<ret, processed, nodes, outdata, srcidx, remainder, outmsgidx, liveNodes, liveData>>

vars == <<sessVars, pc, bufVars, callVars, loopVars>>

\* guchar * that is NULL
NullMsg == [null |-> TRUE, bytes |-> << >>]

\* GstBuffer * that is NULL
NoBuf == [null |-> TRUE, data |-> NullMsg, size |-> 0]

\* struct ll_buffer as g_malloc0 returns it: data = NULL, len = 0, next = NULL
NewNode == [hasdata |-> FALSE, data |-> << >>, len |-> 0]

ZeroBytes(n) == [i \in 1..n |-> 0]

NoFeed == [valid |-> TRUE, end |-> FALSE, sum |-> 0, bufs |-> 0, base |-> 0]

Init ==
  /\ stream = ZeroStream
  /\ elements = 0
  /\ srcpad = << >>
  /\ calls = 0
  /\ fed = NoFeed
  /\ oom = FALSE
  /\ ended = FALSE
  /\ last = "NONE"
  /\ pc = [t \in Threads |-> "idle"]
  /\ srcmsg = [t \in Threads |-> << >>]
  /\ srclen = [t \in Threads |-> 0]
  /\ outmsg = [t \in Threads |-> NullMsg]
  /\ outlen = [t \in Threads |-> 0]
  /\ ret = [t \in Threads |-> "UNINIT"]
  /\ inbuffer = [t \in Threads |-> [i \in 1..CHUNK |-> PadTok]]
  /\ outbuffer = [t \in Threads |-> ZeroBytes(CHUNK)]
  /\ processed = [t \in Threads |-> 0]
  /\ nodes = [t \in Threads |-> << >>]
  /\ outdata = [t \in Threads |-> 0]
  /\ srcidx = [t \in Threads |-> 0]
  /\ remainder = [t \in Threads |-> 0]
  /\ outmsgidx = [t \in Threads |-> 0]
  /\ result = [t \in Threads |-> "NONE"]
  /\ outbuf = [t \in Threads |-> NoBuf]
  /\ flow = [t \in Threads |-> "NONE"]
  /\ ord = [t \in Threads |-> 0]
  /\ liveNodes = [t \in Threads |-> 0]
  /\ liveData = [t \in Threads |-> 0]

(* ---- the element ------------------------------------------------------ *)

\* init_decoder: the global session is (re)opened
init_decoder(s) ==
  inflateInit2([s EXCEPT !.avail_in = 0, !.next_in = NULL])

\* gst_gzdec_init: a new element is created; it opens the shared session
gst_gzdec_init ==
  /\ elements < MaxElements
  /\ \A t \in Threads : pc[t] = "idle"
  /\ elements' = elements + 1
  /\ stream' = init_decoder(stream)
  /\ fed' = [NoFeed EXCEPT !.base = Len(srcpad)]
  /\ oom' = FALSE
  /\ ended' = FALSE
  /\ last' = "NONE"
  /\ UNCHANGED <<srcpad, calls, pc, bufVars, callVars, loopVars>>

\* the history of delivered buffers, extended by the buffer b
FeedAdd(f, b) ==
  [valid |-> f.valid /\ ~f.end /\ Len(b) >= 1 /\ (Truncated(b) \/ ValidComplete(b)),
   end   |-> f.end \/ (\E i \in 1..Len(b) : b[i] = EndTok),
   sum   |-> f.sum + EmitSum(b),
   bufs  |-> f.bufs + 1,
   base  |-> f.base]

\* gst_gzdec_chain, lines 372-382: the sink pad receives a buffer of the set B
chain_entry(t, B) ==
  /\ pc[t] = "idle"
  /\ elements >= 1
  /\ calls < MaxCalls
  /\ \E b \in B :
       /\ srcmsg' = [srcmsg EXCEPT ![t] = b]
       /\ fed' = FeedAdd(fed, b)
  /\ ord' = [ord EXCEPT ![t] = fed.bufs + 1]
  /\ calls' = calls + 1
  /\ flow' = [flow EXCEPT ![t] = "NONE"]
  /\ pc' = [pc EXCEPT ![t] = "process_data"]
  /\ UNCHANGED <<stream, elements, srcpad, oom, ended, last, bufVars,
                 srclen, outmsg, outlen, result, outbuf, loopVars>>

\* gst_gzdec_chain called by the pipeline with any buffer up to MaxLen bytes
gst_gzdec_chain(t) == chain_entry(t, Blobs)

\* a gsize passed for the parameter const gint srclen (line 355)
ToGint(n) ==
  LET m == n % (2 ^ IntBits)
  IN  IF m >= 2 ^ (IntBits - 1) THEN m - 2 ^ IntBits ELSE m

\* a gint stored in the uInt avail_in (line 282) or passed as memcpy's size
ToUInt(n) == n % (2 ^ IntBits)

\* gst_gzdec_process_data, lines 345-355: map the buffer, call decode_message
process_data_call(t) ==
  /\ pc[t] = "process_data"
  /\ outbuf' = [outbuf EXCEPT ![t] = NoBuf]
  /\ outmsg' = [outmsg EXCEPT ![t] = NullMsg]
  /\ outlen' = [outlen EXCEPT ![t] = 0]
  /\ srclen' = [srclen EXCEPT ![t] = ToGint(Len(srcmsg[t]))]
  /\ result' = [result EXCEPT ![t] = "NONE"]
  /\ pc' = [pc EXCEPT ![t] = "dm_entry"]
  /\ UNCHANGED <<sessVars, bufVars, srcmsg, flow, ord, loopVars>>

(* ---- decode_message ---------------------------------------------------- *)

\* lines 262-271: locals are set up and the head node is allocated
decode_message_entry(t) ==
  /\ pc[t] = "dm_entry"
  /\ ret' = [ret EXCEPT ![t] = "UNINIT"]
  /\ srcidx' = [srcidx EXCEPT ![t] = 0]
  /\ remainder' = [remainder EXCEPT ![t] = srclen[t]]
  /\ nodes' = [nodes EXCEPT ![t] = <<NewNode>>]
  /\ outdata' = [outdata EXCEPT ![t] = 1]
  /\ liveNodes' = [liveNodes EXCEPT ![t] = 1]
  /\ liveData' = [liveData EXCEPT ![t] = 0]
  /\ pc' = [pc EXCEPT ![t] = "dm_slice"]
  /\ UNCHANGED <<sessVars, bufVars, callVars, processed, outmsgidx>>

\* number of input bytes the next outer-loop iteration copies (lines 275-285)
SliceLen(rem) == IF rem >= CHUNK THEN CHUNK ELSE rem

\* variant: every slice is copied from the start of the input
FillInbuffer_fromstart(src, idx, n) ==
  [i \in 1..CHUNK |->
     IF i <= n /\ i \in 1..Len(src) THEN src[i] ELSE PadTok]

\* memset (inbuffer, 0, CHUNK), then memcpy (inbuffer, srcidx, n)
FillInbuffer(src, idx, n) ==
  [i \in 1..CHUNK |->
     IF i <= n /\ idx + i \in 1..Len(src) THEN src[idx + i] ELSE PadTok]

\* variant: decode_message takes a lock, so a slice is copied only while
\* no other thread is inside decode_message
dm_slice_locked(t) ==
  /\ pc[t] = "dm_slice"
  /\ \A u \in Threads \ {t} : pc[u] \in {"idle", "process_data", "dm_done", "chain_ret"}
  /\ LET n == ToUInt(SliceLen(remainder[t]))
     IN  \/ /\ inbuffer' = [inbuffer EXCEPT ![t] = FillInbuffer(srcmsg[t], srcidx[t], n)]
            /\ remainder' = [remainder EXCEPT ![t] = IF @ >= CHUNK THEN @ - CHUNK ELSE 0]
            /\ srcidx' = [srcidx EXCEPT ![t] = IF remainder[t] >= CHUNK THEN @ + CHUNK ELSE @]
            /\ IF n = 0
               THEN /\ stream' = [stream EXCEPT !.avail_in = n]
                    /\ pc' = [pc EXCEPT ![t] = "dm_linearize"]
               ELSE /\ stream' = [stream EXCEPT !.avail_in = n,
                                                !.next_in = [thr |-> t, idx |-> 1]]
                    /\ pc' = [pc EXCEPT ![t] = "dm_drain"]
         \/ /\ n > CHUNK
            /\ pc' = [pc EXCEPT ![t] = "crashed"]
            /\ UNCHANGED <<stream, inbuffer, remainder, srcidx>>
  /\ UNCHANGED <<elements, srcpad, calls, fed, oom, ended, last, outbuffer, callVars,
                 ret, processed, nodes, outdata, outmsgidx, liveNodes, liveData>>

\* lines 274-289: the next input slice is copied and presented to the engine;
\* an empty slice leaves the outer loop.  A negative remainder reaches
\* memcpy and avail_in as a huge unsigned count: the copy runs over
\* inbuffer and the process either dies there or goes on.
dm_slice(t) ==
  /\ pc[t] = "dm_slice"
  /\ LET n == ToUInt(SliceLen(remainder[t]))
     IN  \/ /\ inbuffer' = [inbuffer EXCEPT ![t] = FillInbuffer(srcmsg[t], srcidx[t], n)]
            /\ remainder' = [remainder EXCEPT ![t] = IF @ >= CHUNK THEN @ - CHUNK ELSE 0]
            /\ srcidx' = [srcidx EXCEPT ![t] = IF remainder[t] >= CHUNK THEN @ + CHUNK ELSE @]
            /\ IF n = 0
               THEN /\ stream' = [stream EXCEPT !.avail_in = n]
                    /\ pc' = [pc EXCEPT ![t] = "dm_linearize"]
               ELSE /\ stream' = [stream EXCEPT !.avail_in = n,
                                                !.next_in = [thr |-> t, idx |-> 1]]
                    /\ pc' = [pc EXCEPT ![t] = "dm_drain"]
         \/ /\ n > CHUNK
            /\ pc' = [pc EXCEPT ![t] = "crashed"]
            /\ UNCHANGED <<stream, inbuffer, remainder, srcidx>>
  /\ UNCHANGED <<elements, srcpad, calls, fed, oom, ended, last, outbuffer, callVars,
                 ret, processed, nodes, outdata, outmsgidx, liveNodes, liveData>>

\* variant: the drain without the allocation of line 292
dm_drain_noalloc(t) ==
  /\ pc[t] = "dm_drain"
  /\ nodes' = nodes
  /\ liveData' = liveData
  /\ stream' = [stream EXCEPT !.avail_out = CHUNK,
                              !.next_out = [thr |-> t, idx |-> 1]]
  /\ pc' = [pc EXCEPT ![t] = "dm_inflate"]
  /\ UNCHANGED <<elements, srcpad, calls, fed, oom, ended, last, bufVars, callVars,
                 ret, processed, outdata, srcidx, remainder, outmsgidx, liveNodes>>

\* lines 292-295: a fragment data buffer is allocated for the node outdata
\* points to and the engine is given a whole outbuffer
dm_drain(t) ==
  /\ pc[t] = "dm_drain"
  /\ nodes' = [nodes EXCEPT ![t][outdata[t]] =
                 [@ EXCEPT !.hasdata = TRUE, !.data = ZeroBytes(CHUNK)]]
  /\ liveData' = [liveData EXCEPT ![t] = @ + 1]
  /\ stream' = [stream EXCEPT !.avail_out = CHUNK,
                              !.next_out = [thr |-> t, idx |-> 1]]
  /\ pc' = [pc EXCEPT ![t] = "dm_inflate"]
  /\ UNCHANGED <<elements, srcpad, calls, fed, oom, ended, last, bufVars, callVars,
                 ret, processed, outdata, srcidx, remainder, outmsgidx, liveNodes>>

\* line 296: ret = inflate (&stream, Z_NO_FLUSH)
dm_inflate(t) ==
  /\ pc[t] = "dm_inflate"
  /\ \E eager \in BOOLEAN, memfail \in BOOLEAN :
       LET r == inflate(stream, inbuffer, outbuffer, eager, memfail)
       IN  /\ stream' = r.s
           /\ outbuffer' = r.outb
           /\ ret' = [ret EXCEPT ![t] = r.ret]
           /\ oom' = (oom \/ r.ret = "Z_MEM_ERROR")
  /\ pc' = [pc EXCEPT ![t] = "dm_switch"]
  /\ UNCHANGED <<elements, srcpad, calls, fed, ended, last, inbuffer, callVars,
                 processed, nodes, outdata, srcidx, remainder, outmsgidx,
                 liveNodes, liveData>>

\* the switch of lines 297-305: the codes that abort the call
IsFatal(code) == code \in {"Z_NEED_DICT", "Z_DATA_ERROR", "Z_MEM_ERROR", "Z_STREAM_ERROR"}

\* variant: the case Z_NEED_DICT label without its assignment
FatalRet_keepdict(code) == code

\* case Z_NEED_DICT: ret = Z_DATA_ERROR, falling through
FatalRet(code) == IF code = "Z_NEED_DICT" THEN "Z_DATA_ERROR" ELSE code

\* lines 297-305, a fatal code: inflateEnd and return ret
dm_fatal(t) ==
  /\ pc[t] = "dm_switch"
  /\ IsFatal(ret[t])
  /\ ret' = [ret EXCEPT ![t] = FatalRet(@)]
  /\ stream' = inflateEnd(stream)
  /\ ended' = TRUE
  /\ result' = [result EXCEPT ![t] = FatalRet(ret[t])]
  /\ last' = FatalRet(ret[t])
  /\ pc' = [pc EXCEPT ![t] = "dm_done"]
  /\ UNCHANGED <<elements, srcpad, calls, fed, oom, bufVars, srcmsg, srclen, outmsg,
                 outlen, outbuf, flow, ord, processed, nodes, outdata, srcidx, remainder,
                 outmsgidx, liveNodes, liveData>>

\* variant: the copy without the line outdata->len += processed
CopyToFragment_nolen(node, outb, n) ==
  [node EXCEPT !.data = [i \in 1..Len(node.data) |->
                           IF i > node.len /\ i <= node.len + n
                           THEN outb[i - node.len] ELSE node.data[i]]]

\* memcpy (outdata->data + outdata->len, outbuffer, processed)
CopyToFragment(node, outb, n) ==
  [node EXCEPT !.data = [i \in 1..Len(node.data) |->
                           IF i > node.len /\ i <= node.len + n
                           THEN outb[i - node.len] ELSE node.data[i]],
               !.len = @ + n]

\* variant: the inner loop drains each slice once only
DrainAgain_once(avail_out) == FALSE

\* variant: the inner loop never looks at the output space left
DrainAgain_always(avail_out) == TRUE

\* line 316: while (stream.avail_out == 0)
DrainAgain(avail_out) == avail_out = 0

\* variant: the outer loop ends on exhausted input only
StreamGoesOn_always(code) == TRUE

\* lines 318 and 322: ret != Z_STREAM_END
StreamGoesOn(code) == code # "Z_STREAM_END"

\* lines 306-316: the drained bytes go to the current fragment; a full
\* outbuffer starts a new node and drains again
dm_collect(t) ==
  /\ pc[t] = "dm_switch"
  /\ ~IsFatal(ret[t])
  /\ LET n == CHUNK - stream.avail_out
         full == stream.avail_out = 0
         copied == [nodes[t] EXCEPT ![outdata[t]] = CopyToFragment(@, outbuffer[t], n)]
     IN  /\ processed' = [processed EXCEPT ![t] = n]
         /\ outlen' = [outlen EXCEPT ![t] = @ + n]
         /\ nodes' = [nodes EXCEPT ![t] = IF full THEN Append(copied, NewNode) ELSE copied]
         /\ outdata' = [outdata EXCEPT ![t] = IF full THEN @ + 1 ELSE @]
         /\ liveNodes' = [liveNodes EXCEPT ![t] = IF full THEN @ + 1 ELSE @]
         /\ pc' = [pc EXCEPT ![t] = IF DrainAgain(stream.avail_out)
                                     THEN "dm_drain" ELSE "dm_after"]
  /\ UNCHANGED <<sessVars, bufVars, srcmsg, srclen, outmsg, result, outbuf, flow, ord,
                 ret, srcidx, remainder, outmsgidx, liveData>>

\* lines 318-322: unless the stream ended, a new node is appended and the
\* outer loop goes on
dm_after(t) ==
  /\ pc[t] = "dm_after"
  /\ IF StreamGoesOn(ret[t])
     THEN /\ nodes' = [nodes EXCEPT ![t] = Append(@, NewNode)]
          /\ outdata' = [outdata EXCEPT ![t] = @ + 1]
          /\ liveNodes' = [liveNodes EXCEPT ![t] = @ + 1]
          /\ pc' = [pc EXCEPT ![t] = "dm_slice"]
     ELSE /\ UNCHANGED <<nodes, outdata, liveNodes>>
          /\ pc' = [pc EXCEPT ![t] = "dm_linearize"]
  /\ UNCHANGED <<sessVars, bufVars, callVars, ret, processed, srcidx, remainder,
                 outmsgidx, liveData>>

\* g_malloc0 (n) for a byte buffer: NULL when n = 0
g_malloc0(n) == IF n = 0 THEN NullMsg ELSE [null |-> FALSE, bytes |-> ZeroBytes(n)]

\* lines 324-327: the result buffer is allocated with the running total
dm_linearize(t) ==
  /\ pc[t] = "dm_linearize"
  /\ outdata' = [outdata EXCEPT ![t] = 1]
  /\ outmsg' = [outmsg EXCEPT ![t] = g_malloc0(outlen[t])]
  /\ outmsgidx' = [outmsgidx EXCEPT ![t] = 0]
  /\ pc' = [pc EXCEPT ![t] = "dm_walk"]
  /\ UNCHANGED <<sessVars, bufVars, srcmsg, srclen, outlen, result, outbuf, flow, ord,
                 ret, processed, nodes, srcidx, remainder, liveNodes, liveData>>

\* variant: every fragment is copied to the start of the result buffer
CopyToResult_noidx(msg, idx, node) ==
  [msg EXCEPT !.bytes = [i \in 1..Len(msg.bytes) |->
                           IF i <= node.len THEN node.data[i] ELSE msg.bytes[i]]]

\* memcpy (*outmsg + outmsgidx, outdata->data, outdata->len)
CopyToResult(msg, idx, node) ==
  [msg EXCEPT !.bytes = [i \in 1..Len(msg.bytes) |->
                           IF i > idx /\ i <= idx + node.len
                           THEN node.data[i - idx] ELSE msg.bytes[i]]]

\* lines 329-338, one iteration: a fragment is copied into the result
\* buffer, then its data buffer and the node are freed
dm_walk(t) ==
  /\ pc[t] = "dm_walk"
  /\ outdata[t] # 0
  /\ LET node == nodes[t][outdata[t]]
     IN  /\ outmsg' = [outmsg EXCEPT ![t] = CopyToResult(@, outmsgidx[t], node)]
         /\ outmsgidx' = [outmsgidx EXCEPT ![t] = @ + node.len]
         /\ liveData' = [liveData EXCEPT ![t] = IF node.hasdata THEN @ - 1 ELSE @]
         /\ liveNodes' = [liveNodes EXCEPT ![t] = @ - 1]
         /\ outdata' = [outdata EXCEPT ![t] = IF @ < Len(nodes[t]) THEN @ + 1 ELSE 0]
  /\ UNCHANGED <<sessVars, pc, bufVars, srcmsg, srclen, outlen, result, outbuf, flow, ord,
                 ret, processed, nodes, srcidx, remainder>>

\* line 340: return ret == Z_STREAM_END ? Z_OK : Z_DATA_ERROR
ReturnCode(code) == IF code = "Z_STREAM_END" THEN "Z_OK" ELSE "Z_DATA_ERROR"

\* line 340, reached when the walk has ended.  ret was never assigned when
\* the first slice was empty: its value is then whatever the stack held.
dm_return(t) ==
  /\ pc[t] = "dm_walk"
  /\ outdata[t] = 0
  /\ \E held \in EngineCodes :
       LET code == ReturnCode(IF ret[t] = "UNINIT" THEN held ELSE ret[t])
       IN  /\ result' = [result EXCEPT ![t] = code]
           /\ last' = code
  /\ nodes' = [nodes EXCEPT ![t] = << >>]
  /\ pc' = [pc EXCEPT ![t] = "dm_done"]
  /\ UNCHANGED <<stream, elements, srcpad, calls, fed, oom, ended, bufVars,
                 srcmsg, srclen, outmsg, outlen, outbuf, flow, ord,
                 ret, processed, outdata, srcidx, remainder, outmsgidx,
                 liveNodes, liveData>>

(* ---- back in the callers ----------------------------------------------- *)

\* the input buffer after memset (info.data, 0xff, info.size)
FFTok == <<"ff", 0>>

\* gst_gzdec_process_data, lines 357-366: the decoded message is wrapped in
\* a new buffer whatever decode_message returned; decode_message's frame is gone
process_data_finish(t) ==
  /\ pc[t] = "dm_done"
  /\ outbuf' = [outbuf EXCEPT ![t] = [null |-> FALSE, data |-> outmsg[t], size |-> outlen[t]]]
  /\ srcmsg' = [srcmsg EXCEPT ![t] = [i \in 1..Len(@) |-> FFTok]]
  /\ inbuffer' = [inbuffer EXCEPT ![t] = [i \in 1..CHUNK |-> PadTok]]
  /\ outbuffer' = [outbuffer EXCEPT ![t] = ZeroBytes(CHUNK)]
  /\ ret' = [ret EXCEPT ![t] = "UNINIT"]
  /\ processed' = [processed EXCEPT ![t] = 0]
  /\ nodes' = [nodes EXCEPT ![t] = << >>]
  /\ outdata' = [outdata EXCEPT ![t] = 0]
  /\ srcidx' = [srcidx EXCEPT ![t] = 0]
  /\ remainder' = [remainder EXCEPT ![t] = 0]
  /\ outmsgidx' = [outmsgidx EXCEPT ![t] = 0]
  /\ liveNodes' = [liveNodes EXCEPT ![t] = 0]
  /\ liveData' = [liveData EXCEPT ![t] = 0]
  /\ pc' = [pc EXCEPT ![t] = "chain_ret"]
  /\ UNCHANGED <<sessVars, srclen, outmsg, outlen, result, flow, ord>>

\* gst_gzdec_chain, lines 383-389: the input buffer is released; a NULL
\* outbuf is an error, any other is pushed on the source pad (downstream
\* accepts it)
chain_finish(t) ==
  /\ pc[t] = "chain_ret"
  /\ srcmsg' = [srcmsg EXCEPT ![t] = << >>]
  /\ IF outbuf[t].null
     THEN /\ flow' = [flow EXCEPT ![t] = "GST_FLOW_ERROR"]
          /\ UNCHANGED srcpad
     ELSE /\ flow' = [flow EXCEPT ![t] = "GST_FLOW_OK"]
          /\ srcpad' = Append(srcpad, outbuf[t])
  /\ outbuf' = [outbuf EXCEPT ![t] = NoBuf]
  /\ outmsg' = [outmsg EXCEPT ![t] = NullMsg]
  /\ outlen' = [outlen EXCEPT ![t] = 0]
  /\ srclen' = [srclen EXCEPT ![t] = 0]
  /\ ord' = [ord EXCEPT ![t] = 0]
  /\ pc' = [pc EXCEPT ![t] = "idle"]
  /\ UNCHANGED <<stream, elements, calls, fed, oom, ended, last, bufVars, result, loopVars>>

(* ---- the sequential program -------------------------------------------- *)

\* one step of a decode_message call
DecodeStep(t) ==
  \/ decode_message_entry(t)
  \/ dm_slice(t)
  \/ dm_drain(t)
  \/ dm_inflate(t)
  \/ dm_fatal(t)
  \/ dm_collect(t)
  \/ dm_after(t)
  \/ dm_linearize(t)
  \/ dm_walk(t)
  \/ dm_return(t)

Step(t) ==
  \/ gst_gzdec_chain(t)
  \/ process_data_call(t)
  \/ decode_message_entry(t)
  \/ dm_slice(t)
  \/ dm_drain(t)
  \/ dm_inflate(t)
  \/ dm_fatal(t)
  \/ dm_collect(t)
  \/ dm_after(t)
  \/ dm_linearize(t)
  \/ dm_walk(t)
  \/ dm_return(t)
  \/ process_data_finish(t)
  \/ chain_finish(t)

Next ==
  \/ gst_gzdec_init
  \/ \E t \in Serial : Step(t)

Spec == Init /\ [][Next]_vars

(* ---- two streaming threads on the one session ---------------------------- *)

\* whole gzip members of at most ConcLen bytes
ConcBlobs == {b \in Blobs : ValidComplete(b) /\ Len(b) <= ConcLen}

\* gst_gzdec_chain called on a streaming thread with a whole gzip member
conc_chain(t) == chain_entry(t, ConcBlobs)

\* two pads' streaming threads run their chain functions with no
\* synchronisation between them
NextConc ==
  \/ gst_gzdec_init
  \/ \E t \in Threads :
       \/ conc_chain(t)
       \/ process_data_call(t)
       \/ DecodeStep(t)
       \/ process_data_finish(t)
       \/ chain_finish(t)

SpecConc == Init /\ [][NextConc]_vars

(* ---- decode_message called directly ---------------------------------------- *)

\* the values *outlen can hold when a caller other than
\* gst_gzdec_process_data calls decode_message (declared in the header)
OutlenIn == {0, 1}

ApiBlobs == {b \in Blobs : Len(b) <= ConcLen}

\* decode_message (srcmsg, srclen, &outmsg, &outlen) called with a blob and
\* a counter the caller has not necessarily cleared
api_call(t) ==
  /\ pc[t] = "idle"
  /\ elements >= 1
  /\ calls < MaxCalls
  /\ \E b \in ApiBlobs, n0 \in OutlenIn :
       /\ srcmsg' = [srcmsg EXCEPT ![t] = b]
       /\ srclen' = [srclen EXCEPT ![t] = Len(b)]
       /\ outlen' = [outlen EXCEPT ![t] = n0]
       /\ fed' = FeedAdd(fed, b)
  /\ ord' = [ord EXCEPT ![t] = fed.bufs + 1]
  /\ calls' = calls + 1
  /\ outmsg' = [outmsg EXCEPT ![t] = NullMsg]
  /\ result' = [result EXCEPT ![t] = "NONE"]
  /\ pc' = [pc EXCEPT ![t] = "dm_entry"]
  /\ UNCHANGED <<stream, elements, srcpad, oom, ended, last, bufVars, outbuf, flow,
                 loopVars>>

\* the direct caller has taken the result; decode_message's frame is gone
api_return(t) ==
  /\ pc[t] = "dm_done"
  /\ srcmsg' = [srcmsg EXCEPT ![t] = << >>]
  /\ srclen' = [srclen EXCEPT ![t] = 0]
  /\ outmsg' = [outmsg EXCEPT ![t] = NullMsg]
  /\ outlen' = [outlen EXCEPT ![t] = 0]
  /\ ord' = [ord EXCEPT ![t] = 0]
  /\ inbuffer' = [inbuffer EXCEPT ![t] = [i \in 1..CHUNK |-> PadTok]]
  /\ outbuffer' = [outbuffer EXCEPT ![t] = ZeroBytes(CHUNK)]
  /\ ret' = [ret EXCEPT ![t] = "UNINIT"]
  /\ processed' = [processed EXCEPT ![t] = 0]
  /\ nodes' = [nodes EXCEPT ![t] = << >>]
  /\ outdata' = [outdata EXCEPT ![t] = 0]
  /\ srcidx' = [srcidx EXCEPT ![t] = 0]
  /\ remainder' = [remainder EXCEPT ![t] = 0]
  /\ outmsgidx' = [outmsgidx EXCEPT ![t] = 0]
  /\ liveNodes' = [liveNodes EXCEPT ![t] = 0]
  /\ liveData' = [liveData EXCEPT ![t] = 0]
  /\ pc' = [pc EXCEPT ![t] = "idle"]
  /\ UNCHANGED <<sessVars, result, outbuf, flow>>

NextApi ==
  \/ gst_gzdec_init
  \/ \E t \in Serial :
       \/ api_call(t)
       \/ DecodeStep(t)
       \/ api_return(t)

SpecApi == Init /\ [][NextApi]_vars

(* ---- buffers near the limits of gint -------------------------------------- *)

\* buffer sizes around the largest gint and the smallest size that wraps
BigLens == {2 ^ (IntBits - 1) - 1, 2 ^ (IntBits - 1), 2 ^ IntBits, 2 ^ IntBits + 1}

\* buffers of those sizes, filled with one repeated byte
BigBlobs == {[i \in 1..n |-> tok] : n \in BigLens, tok \in Tokens}

\* gst_gzdec_chain called by the pipeline with a very large buffer
big_chain(t) == chain_entry(t, BigBlobs)

NextBig ==
  \/ gst_gzdec_init
  \/ \E t \in Serial :
       \/ big_chain(t)
       \/ process_data_call(t)
       \/ DecodeStep(t)
       \/ process_data_finish(t)
       \/ chain_finish(t)

SpecBig == Init /\ [][NextBig]_vars

TypeOK ==
  /\ stream.mode \in {"none", "run", "done", "bad", "dict", "mem"}
  /\ \A t \in Threads : ret[t] \in EngineCodes \cup {"UNINIT"}
  /\ \A t \in Threads : liveNodes[t] >= 0 /\ liveData[t] >= 0

(* ---- properties --------------------------------------------------------- *)

\* the session was opened by init_decoder and this is the first decode on it
FreshCall == fed.bufs = 1

\* position of the first end-of-stream byte of b
FirstEnd(b) == CHOOSE i \in 1..Len(b) : b[i] = EndTok /\ \A j \in 1..(i - 1) : b[j] # EndTok

\* a whole gzip member followed by at least one more byte
HasTrailing(b) == \E p \in 1..(Len(b) - 1) : ValidComplete(SubSeq(b, 1, p))

Min(a, b) == IF a < b THEN a ELSE b

\* the bytes a pushed buffer carries
BufBytes(buf) == SubSeq(buf.data.bytes, 1, Min(buf.size, Len(buf.data.bytes)))

RECURSIVE Concat(_)
Concat(bufs) == IF bufs = << >> THEN << >> ELSE BufBytes(Head(bufs)) \o Concat(Tail(bufs))

\* the buffers pushed since the element was initialised
PushedSinceInit == SubSeq(srcpad, fed.base + 1, Len(srcpad))

\* C1: a valid, complete gzip input decoded on a freshly opened session with
\* *outlen = 0 (and an engine that can allocate) returns Z_OK and leaves
\* exactly the original bytes, in order, in (*outmsg, *outlen).
C1_RoundTrip ==
  \A t \in Threads :
    (pc[t] = "dm_done" /\ FreshCall /\ ~oom /\ ValidComplete(srcmsg[t]))
      => /\ result[t] = "Z_OK"
         /\ outlen[t] = EmitSum(srcmsg[t])
         /\ outmsg[t].bytes = Bytes(0, EmitSum(srcmsg[t]))

C1_Witness ==
  \E t \in Threads :
    /\ pc[t] = "dm_done" /\ FreshCall /\ ~oom /\ ValidComplete(srcmsg[t])
    /\ Len(srcmsg[t]) > CHUNK
    /\ EmitSum(srcmsg[t]) > CHUNK
    /\ result[t] = "Z_OK"
    /\ outmsg[t].bytes = Bytes(0, EmitSum(srcmsg[t]))

\* C2: decode_message with srclen = 0 returns Z_OK with an empty result,
\* without an inflate call and without allocating a fragment data buffer.
C2_EmptyInput ==
  \A t \in Threads :
    (pc[t] = "dm_done" /\ srclen[t] = 0)
      => /\ result[t] = "Z_OK"
         /\ outlen[t] = 0
         /\ outmsg[t].null
         /\ ret[t] = "UNINIT"
         /\ liveData[t] = 0

\* C3: a valid gzip input cut at any offset before its logical end, decoded
\* on a freshly opened session, never returns Z_OK: the engine has not
\* signalled stream-end and the call ends as Incomplete (Z_DATA_ERROR).
C3_TruncatedIncomplete ==
  \A t \in Threads :
    (pc[t] = "dm_done" /\ FreshCall /\ ~oom /\ Truncated(srcmsg[t]))
      => /\ result[t] = "Z_DATA_ERROR"
         /\ ret[t] # "Z_STREAM_END"

\* C4: when decode_message returned anything but Z_OK, process_data yields
\* no output buffer, chain returns GST_FLOW_ERROR and nothing is pushed.
C4_FailureReported ==
  [][\A t \in Threads :
       (pc[t] = "chain_ret" /\ pc'[t] = "idle" /\ result[t] # "Z_OK")
         => /\ outbuf[t].null
            /\ flow'[t] = "GST_FLOW_ERROR"
            /\ srcpad' = srcpad]_vars

\* C5: when decode_message has returned, on any exit path, every ll_buffer
\* node and fragment data buffer it allocated has been freed.
C5_NoLeak ==
  \A t \in Threads :
    pc[t] = "dm_done" => (liveNodes[t] = 0 /\ liveData[t] = 0)

\* C6: a drain step that reports Z_DATA_ERROR, Z_MEM_ERROR, Z_STREAM_ERROR
\* or Z_NEED_DICT ends the call at once: inflateEnd is called, the call
\* returns the engine's code (Z_NEED_DICT as Z_DATA_ERROR) with no further
\* inflate call or slice; Z_OK, Z_BUF_ERROR and Z_STREAM_END go on collecting.
C6_FatalAborts ==
  [][\A t \in Threads :
       (pc[t] = "dm_switch" /\ pc'[t] # "dm_switch")
         => IF ret[t] \in {"Z_DATA_ERROR", "Z_MEM_ERROR", "Z_STREAM_ERROR", "Z_NEED_DICT"}
            THEN /\ pc'[t] = "dm_done"
                 /\ stream'.mode = "none"
                 /\ ended'
                 /\ result'[t] = (IF ret[t] = "Z_NEED_DICT" THEN "Z_DATA_ERROR" ELSE ret[t])
            ELSE /\ pc'[t] \in {"dm_drain", "dm_after"}
                 /\ stream' = stream
                 /\ result' = result
                 /\ outlen'[t] = outlen[t] + (CHUNK - stream.avail_out)]_vars

C6_Witness ==
  \E t \in Threads :
    /\ pc[t] = "dm_done"
    /\ ended
    /\ stream.mode = "none"
    /\ result[t] = "Z_DATA_ERROR"
    /\ ReadIn(inbuffer, [thr |-> t, idx |-> stream.next_in.idx - 1]) = DictTok
    /\ outlen[t] > 0

\* C7: once the engine has signalled stream-end no further slice is fed;
\* bytes after the logical end are ignored and the call returns Z_OK with
\* the output produced up to stream-end.
C7_TrailingIgnored ==
  \A t \in Threads :
    /\ pc[t] = "dm_slice" => ret[t] # "Z_STREAM_END"
    /\ (pc[t] = "dm_done" /\ FreshCall /\ ~oom /\ HasTrailing(srcmsg[t]))
         => LET p == FirstEnd(srcmsg[t])
                member == SubSeq(srcmsg[t], 1, p)
            IN  /\ result[t] = "Z_OK"
                /\ outlen[t] = EmitSum(member)
                /\ outmsg[t].bytes = Bytes(0, EmitSum(member))
                /\ srclen[t] - remainder[t]
                     = Min(srclen[t], CHUNK * ((p + CHUNK - 1) \div CHUNK))

C7_Witness ==
  \E t \in Threads :
    /\ pc[t] = "dm_done" /\ FreshCall /\ ~oom /\ HasTrailing(srcmsg[t])
    /\ remainder[t] > 0
    /\ outlen[t] > 0
    /\ result[t] = "Z_OK"

\* C8: inflate is never called on the shared session after inflateEnd
\* unless init_decoder was called in between.
C8_NoInflateAfterEnd ==
  [][\A t \in Threads :
       (pc[t] = "dm_inflate" /\ pc'[t] = "dm_switch") => ~ended]_vars

\* C9: after a decode_message call that returned Z_OK, a further call on the
\* same session with a valid, complete gzip input returns Z_OK with exactly
\* that input's decompressed bytes.
C9_SessionReusable ==
  [][\A t \in Threads :
       (/\ pc[t] # "dm_done" /\ pc'[t] = "dm_done"
        /\ last = "Z_OK" /\ ~oom'
        /\ ValidComplete(srcmsg[t]))
         => /\ result'[t] = "Z_OK"
            /\ outlen'[t] = EmitSum(srcmsg[t])
            /\ outmsg'[t].bytes = Bytes(0, EmitSum(srcmsg[t]))]_vars

\* C10: a valid gzip stream delivered to a freshly initialised element as
\* consecutive non-empty buffers, one per chain call: the buffers pushed on
\* the source pad, concatenated in order, are the decompressed stream.
C10_StreamOfBuffers ==
  ((\A t \in Threads : pc[t] = "idle") /\ fed.valid /\ fed.end /\ ~oom)
    => /\ Len(PushedSinceInit) = fed.bufs
       /\ \A i \in 1..Len(PushedSinceInit) :
            PushedSinceInit[i].size = Len(PushedSinceInit[i].data.bytes)
       /\ Concat(PushedSinceInit) = Bytes(0, fed.sum)

C10_Witness ==
  /\ \A t \in Threads : pc[t] = "idle"
  /\ fed.valid /\ fed.end /\ ~oom
  /\ fed.bufs = 2
  /\ fed.sum > CHUNK
  /\ Len(PushedSinceInit) = 2
  /\ PushedSinceInit[1].size > 0
  /\ PushedSinceInit[2].size > 0
  /\ Concat(PushedSinceInit) = Bytes(0, fed.sum)

C12_InputReadOnly ==
  [][\A t \in Threads :
       pc[t] \notin {"idle", "chain_ret"} => srcmsg'[t] = srcmsg[t]]_vars

\* number of input slices fed so far in thread t's decode_message call
SlicesFed(t) == (srclen[t] - remainder[t] + CHUNK - 1) \div CHUNK

\* the fragments of thread t's chain that were drained into and not filled
Partial(t) == {i \in 1..Len(nodes[t]) : nodes[t][i].hasdata /\ nodes[t][i].len < CHUNK}

C14_FragmentBounds ==
  \A t \in Threads :
    /\ \A i \in 1..Len(nodes[t]) :
         /\ nodes[t][i].len <= CHUNK
         /\ nodes[t][i].hasdata => Len(nodes[t][i].data) = CHUNK
         /\ nodes[t][i].len > 0 => nodes[t][i].hasdata
    /\ pc[t] = "dm_switch" /\ ~IsFatal(ret[t])
         => /\ outdata[t] \in 1..Len(nodes[t])
            /\ stream.avail_out \in 0..CHUNK
            /\ nodes[t][outdata[t]].hasdata
            /\ nodes[t][outdata[t]].len + (CHUNK - stream.avail_out) <= CHUNK

\* a copy that fills a fragment to its last byte is about to happen
C14_Witness ==
  \E t \in Threads :
    /\ pc[t] = "dm_switch" /\ ~IsFatal(ret[t])
    /\ Len(nodes[t]) >= 2
    /\ stream.avail_out = 0

\* sum of the lengths of the fragments 1..n of thread t's chain
RECURSIVE FragSum(_, _)
FragSum(t, n) == IF n = 0 THEN 0 ELSE nodes[t][n].len + FragSum(t, n - 1)

\* C15: at every point of a decode_message call *outlen equals the sum of
\* the lengths of all fragments in the chain, and the number of bytes copied
\* into the result buffer equals *outlen, for every caller-supplied initial
\* value of *outlen.
C15_OutlenIsFragmentSum ==
  \A t \in Threads :
    /\ pc[t] \in {"dm_slice", "dm_drain", "dm_inflate", "dm_switch", "dm_after",
                  "dm_linearize"}
         => outlen[t] = FragSum(t, Len(nodes[t]))
    /\ pc[t] = "dm_walk"
         => /\ Len(outmsg[t].bytes) = FragSum(t, Len(nodes[t]))
            /\ outdata[t] = 0 => outmsgidx[t] = outlen[t]

\* C16: the input is presented to the engine as successive slices in
\* original order: every slice has 1..CHUNK bytes, every slice before the
\* last fed one has exactly CHUNK bytes, the slices fed are consecutive
\* pieces of the input starting at its first byte, and the outer loop is
\* left through the empty slice only when the whole input has been fed.
C16_SlicesInOrder ==
  [][\A t \in Threads :
       (pc[t] = "dm_slice" /\ pc'[t] # "dm_slice")
         => LET before == srclen[t] - remainder[t]
                n == stream'.avail_in
            IN  IF pc'[t] = "dm_drain"
                THEN /\ n \in 1..CHUNK
                     /\ before % CHUNK = 0
                     /\ before + n <= srclen[t]
                     /\ n < CHUNK => before + n = srclen[t]
                     /\ remainder'[t] = srclen[t] - (before + n)
                     /\ stream'.next_in = [thr |-> t, idx |-> 1]
                     /\ \A i \in 1..n : inbuffer'[t][i] = srcmsg[t][before + i]
                     /\ \A i \in (n + 1)..CHUNK : inbuffer'[t][i] = PadTok
                ELSE /\ pc'[t] = "dm_linearize"
                     /\ n = 0
                     /\ before = srclen[t]]_vars

\* the engine is about to read a second slice, shorter than CHUNK
C16_Witness ==
  \E t \in Threads :
    /\ pc[t] = "dm_inflate"
    /\ srclen[t] - remainder[t] > CHUNK
    /\ stream.avail_in \in 1..(CHUNK - 1)
    /\ stream.next_in = [thr |-> t, idx |-> 1]

\* C17: within one decode_message call, after inflate has returned
\* Z_STREAM_END no further inflate call is made, also when the drain that
\* reached stream-end filled its output buffer completely.
C17_NoDrainAfterEnd ==
  [][\A t \in Threads :
       (pc[t] = "dm_inflate" /\ pc'[t] = "dm_switch") => ret[t] # "Z_STREAM_END"]_vars

\* decoded bytes the engine still owes for the input it has been given:
\* the pending ones and those of the unread bytes of the current slice
RECURSIVE Unread(_, _, _)
Unread(inb, p, n) ==
  IF n = 0 THEN 0
  ELSE LET tok == ReadIn(inb, p)
       IN  (IF IsEmit(tok) THEN tok[2] ELSE 0) + Unread(inb, Advance(p), n - 1)

EngineWork == stream.pend + Unread(inbuffer, stream.next_in, stream.avail_in)

\* position inside one outer-loop iteration, counted down
LoopPos(t) ==
  CASE pc[t] = "dm_slice"   -> 0
    [] pc[t] = "dm_after"   -> 1
    [] pc[t] = "dm_switch"  -> IF ~IsFatal(ret[t]) /\ stream.avail_out = 0 THEN 5 ELSE 2
    [] pc[t] = "dm_inflate" -> 3
    [] pc[t] = "dm_drain"   -> 4
    [] OTHER                -> 0

\* the measure of thread t's decode_message call: the stage, then the
\* remaining input count, then the engine's remaining work, then the
\* position in the iteration; in the walk, the fragments left
Rank(t) ==
  CASE pc[t] = "dm_entry"     -> <<4, 0, 0, 0>>
    [] pc[t] \in {"dm_slice", "dm_drain", "dm_inflate", "dm_switch", "dm_after"}
                              -> <<3, remainder[t], EngineWork, LoopPos(t)>>
    [] pc[t] = "dm_linearize" -> <<2, 0, 0, 0>>
    [] pc[t] = "dm_walk"      -> <<1, IF outdata[t] = 0 THEN 0
                                      ELSE Len(nodes[t]) - outdata[t] + 1, 0, 0>>
    [] OTHER                  -> <<0, 0, 0, 0>>

LexLess(a, b) ==
  \E k \in 1..4 : a[k] < b[k] /\ \A j \in 1..(k - 1) : a[j] = b[j]

Running(t) ==
  pc[t] \in {"dm_entry", "dm_slice", "dm_drain", "dm_inflate", "dm_switch", "dm_after",
             "dm_linearize", "dm_walk"}

\* C18: every decode_message call on a finite input terminates: while the
\* call runs a next step is always possible, and every step lowers a measure
\* of natural numbers in which the remaining input count falls with every
\* slice fed and the engine's remaining work falls with every drain that
\* filled its output buffer.
C18_Terminates ==
  /\ [](\A t \in Threads :
          Running(t) => /\ ENABLED DecodeStep(t)
                        /\ \A k \in 1..4 : Rank(t)[k] >= 0)
  /\ [][\A t \in Threads : Running(t) => LexLess(Rank(t)', Rank(t))]_vars

\* a call over two slices, with a drain that had to be repeated, has
\* returned after walking its chain
C18_Witness ==
  \E t \in Threads :
    /\ pc[t] = "dm_done"
    /\ srclen[t] > CHUNK
    /\ outlen[t] > CHUNK
    /\ outmsgidx[t] = outlen[t]
    /\ result[t] = "Z_OK"

\* C19: when decode_message returns a fatal engine code, *outmsg is not
\* assigned and *outlen has the value it had on entry (0, set by
\* gst_gzdec_process_data), also when earlier drains produced bytes.
C19_NoPartialResult ==
  [][\A t \in Threads :
       (pc[t] = "dm_switch" /\ pc'[t] = "dm_done")
         => outmsg'[t].null /\ outlen'[t] = 0]_vars

\* C20: for every input length the caller can pass, also a buffer size the
\* gint srclen cannot hold, the number of bytes copied into inbuffer and
\* assigned to avail_in in each outer-loop iteration is between 0 and CHUNK,
\* and the bytes read lie inside the input blob.
C20_SliceInBounds ==
  \A t \in Threads :
    pc[t] = "dm_slice"
      => LET n == ToUInt(SliceLen(remainder[t]))
         IN  /\ n \in 0..CHUNK
             /\ srcidx[t] >= 0
             /\ srcidx[t] + n <= Len(srcmsg[t])

====
